---- MODULE Spec2Model ----
(***************************************************************************)
(* A model of layout.py, the hotel-booking dashboard.                      *)
(*                                                                         *)
(* Representation.  A Python str is a sequence of Unicode code points, a   *)
(* bytes object a sequence of numbers 0..255.  A pandas DataFrame is a     *)
(* record [columns, index, rows]: the column labels, the row labels and    *)
(* the rows, each row a sequence of cells; a cell is a tagged record       *)
(* ([t |-> "int", v |-> 3], [t |-> "nan"], ...).  A Python value that a    *)
(* callback receives is tagged the same way, so that zip and split can     *)
(* tell a str from a number.  Month names are kept as strings: they are    *)
(* only ever labels.                                                       *)
(***************************************************************************)
EXTENDS Integers, Sequences, FiniteSets, TLC

VARIABLES pc, data, df, final_rush, adr_month_hotel,
          loaded, n_clicks, request, outcome, children, downloads,
          call, result

vars == <<pc, data, df, final_rush, adr_month_hotel,
          loaded, n_clicks, request, outcome, children, downloads,
          call, result>>

(***************************************************************************)
(* Bounds of the model.                                                    *)
(***************************************************************************)
\* Rows of hotel_booking_clean.csv.
MaxRows == 2
\* Activations of the download button in one run.
MaxClicks == 2

(***************************************************************************)
(* Sequences and text.                                                     *)
(***************************************************************************)
Range(s) == {s[i] : i \in 1..Len(s)}

Min(a, b) == IF a <= b THEN a ELSE b

\* Python's < on str: lexicographic by code point.
RECURSIVE LexLess(_, _)
LexLess(a, b) ==
    IF b = <<>> THEN FALSE
    ELSE IF a = <<>> THEN TRUE
    ELSE IF a[1] # b[1] THEN a[1] < b[1]
    ELSE LexLess(Tail(a), Tail(b))

\* The texts of S in increasing order.
RECURSIVE SortText(_)
SortText(S) ==
    IF S = {} THEN <<>>
    ELSE LET x == CHOOSE y \in S : \A z \in S : z = y \/ LexLess(y, z)
         IN  <<x>> \o SortText(S \ {x})

\* The elements of S in increasing rank, rank a function injective on S.
RECURSIVE SortByRank(_, _)
SortByRank(S, rank) ==
    IF S = {} THEN <<>>
    ELSE LET x == CHOOSE y \in S : \A z \in S : rank[y] <= rank[z]
         IN  <<x>> \o SortByRank(S \ {x}, rank)

\* The first position of x in s, 0 when absent.
IndexOf(s, x) ==
    IF \E i \in 1..Len(s) : s[i] = x
    THEN CHOOSE i \in 1..Len(s) : s[i] = x /\ \A j \in 1..(i - 1) : s[j] # x
    ELSE 0

\* str(n) for a natural number n, zero-padded to at least width digits.
RECURSIVE Digits(_, _)
Digits(n, width) ==
    IF n < 10 /\ width <= 1 THEN <<48 + n>>
    ELSE Digits(n \div 10, width - 1) \o <<48 + (n % 10)>>

\* Cells.
NaN == [t |-> "nan"]
IntCell(n) == [t |-> "int", v |-> n]
FloatCell(n) == [t |-> "float", v |-> n]
StrCell(s) == [t |-> "str", v |-> s]
DateCell(d) == [t |-> "date", v |-> d]
MonthCell(m) == [t |-> "month", v |-> m]

(***************************************************************************)
(* The startup computation (the module's top level).                       *)
(***************************************************************************)
\* "City Hotel" and "Resort Hotel", the two categories the layout reads.
CityHotel == <<67, 105, 116, 121, 32, 72, 111, 116, 101, 108>>
ResortHotel == <<82, 101, 115, 111, 114, 116, 32, 72, 111, 116, 101, 108>>
HotelValues == {CityHotel, ResortHotel}

\* "hotel" and "arrival_date", the labels of the columns df keeps.
hotel_col == <<104, 111, 116, 101, 108>>
arrival_date_col == <<97, 114, 114, 105, 118, 97, 108, 95, 100, 97, 116, 101>>

\* The dates and rates the modelled datasets draw from: two months whose
\* alphabetical order (April, January) is not their calendar order.  adr is
\* in thousandths, so that round(2) has something to round.
ArrivalDates ==
    { [year |-> 2016, month |-> 1, day |-> 5],
      [year |-> 2015, month |-> 4, day |-> 20] }
AdrValues == {75125, 100000}

\* A row of hotel_booking_clean.csv after the casts: the columns the module
\* reads.
BookingRecord ==
    [hotel : HotelValues, is_canceled : {0, 1},
     arrival_date : ArrivalDates, adr : AdrValues]

\* The datasets read_csv may load: every sequence of at most MaxRows rows.
Datasets == UNION {[1..n -> BookingRecord] : n \in 0..MaxRows}

month ==
    <<"January", "February", "March", "April", "May", "June", "July",
      "August", "September", "October", "November", "December">>

\* Series.dt.month_name()
month_name(d) == month[d.month]

\* The place of each month name in the alphabetical order of the twelve:
\* the order in which crosstab and groupby leave their keys.
MonthLexRank ==
    [m \in Range(month) |->
        IndexOf(<<"April", "August", "December", "February", "January",
                  "July", "June", "March", "May", "November", "October",
                  "September">>, m)]

\* The calendar place of a month name: the code pd.Categorical gives it.
MonthCode == [m \in Range(month) |-> IndexOf(month, m)]

\* The filter with its test lost: every row passes.
IsActive_every_row(r) == TRUE

\* data['is_canceled'] == 0
IsActive(r) == r.row.is_canceled = 0

\* data[data['is_canceled'] == 0]: the rows kept, each with the label it
\* had in data (read_csv's RangeIndex).
no_canceled(d) ==
    SelectSeq([i \in 1..Len(d) |-> [index |-> i - 1, row |-> d[i]]], IsActive)

\* no_canceled[['hotel', 'arrival_date']]
df_of(d) ==
    LET nc == no_canceled(d)
    IN  [columns |-> <<hotel_col, arrival_date_col>>,
         index   |-> [i \in 1..Len(nc) |-> nc[i].index],
         rows    |-> [i \in 1..Len(nc) |->
                        <<StrCell(nc[i].row.hotel),
                          DateCell(nc[i].row.arrival_date)>>]]

\* pd.crosstab(index=rowKeys, columns=colKeys) of two aligned key sequences:
\* one row per key seen, one column per key seen, both sorted, each cell
\* the number of positions holding that pair.
crosstab(rowKeys, colKeys) ==
    LET rowLabels == SortByRank(Range(rowKeys), MonthLexRank)
        colLabels == SortText(Range(colKeys))
    IN  [columns |-> colLabels,
         index   |-> rowLabels,
         rows    |-> [i \in 1..Len(rowLabels) |->
                        [j \in 1..Len(colLabels) |->
                            IntCell(Cardinality(
                                {k \in 1..Len(rowKeys) :
                                    /\ rowKeys[k] = rowLabels[i]
                                    /\ colKeys[k] = colLabels[j]}))]]]

\* An int cell as the float it becomes when its column gains a NaN.
AsFloat(c) == IF c.t = "int" THEN FloatCell(c.v) ELSE c

\* reindex left out: the crosstab as it came.
reindex_skipped(frame, labels) == frame

\* DataFrame.reindex(labels): the rows in the order of labels; a label the
\* frame lacks gets a row of NaN, and the columns then turn to float.
reindex(frame, labels) ==
    LET missing == \E i \in 1..Len(labels) : IndexOf(frame.index, labels[i]) = 0
    IN  [columns |-> frame.columns,
         index   |-> labels,
         rows    |-> [i \in 1..Len(labels) |->
                        LET p == IndexOf(frame.index, labels[i])
                        IN  [j \in 1..Len(frame.columns) |->
                                IF p = 0 THEN NaN
                                ELSE IF missing THEN AsFloat(frame.rows[p][j])
                                ELSE frame.rows[p][j]]]]

\* final_rush: the crosstab of the active bookings, reindexed by month.
final_rush_of(d) ==
    LET nc == no_canceled(d)
    IN  reindex(crosstab([i \in 1..Len(nc) |-> month_name(nc[i].row.arrival_date)],
                         [i \in 1..Len(nc) |-> nc[i].row.hotel]),
                month)

\* The sum of adr over the rows of d with month m and hotel h.
RECURSIVE SumAdr(_, _, _)
SumAdr(d, m, h) ==
    IF d = <<>> THEN 0
    ELSE (IF month_name(d[1].arrival_date) = m /\ d[1].hotel = h
          THEN d[1].adr ELSE 0) + SumAdr(Tail(d), m, h)

CountRows(d, m, h) ==
    Cardinality({k \in 1..Len(d) :
                    month_name(d[k].arrival_date) = m /\ d[k].hotel = h})

\* (total / n).round(2) with total in thousandths: the mean in hundredths,
\* a tie going to the even neighbour as numpy's round does.
Round2(total, n) ==
    LET q == total \div (10 * n)
        r == total % (10 * n)
    IN  IF 2 * r < 10 * n THEN q
        ELSE IF 2 * r > 10 * n THEN q + 1
        ELSE IF q % 2 = 0 THEN q ELSE q + 1

\* data.groupby(['arrival_month', 'hotel']).mean()['adr'].round(2)
\*     .reset_index():
\* 'hotel' is categorical (line 21) and groupby's observed is False, so the
\* result has one row for every pair of a month that occurs in data and a
\* category of 'hotel', the months in alphabetical order, the categories in
\* theirs; a pair without rows has the mean NaN.
groupby_mean_adr(d) ==
    LET months == SortByRank({month_name(d[k].arrival_date) : k \in 1..Len(d)},
                             MonthLexRank)
        hotels == SortText({d[k].hotel : k \in 1..Len(d)})
        nh     == Len(hotels)
        n      == Len(months) * nh
    IN  [columns |-> <<"arrival_month", "hotel", "adr">>,
         index   |-> [k \in 1..n |-> k - 1],
         rows    |-> [k \in 1..n |->
                        LET m == months[((k - 1) \div nh) + 1]
                            h == hotels[((k - 1) % nh) + 1]
                            c == CountRows(d, m, h)
                        IN  <<MonthCell(m), StrCell(h),
                              IF c = 0 THEN NaN
                              ELSE FloatCell(Round2(SumAdr(d, m, h), c))>>]]

\* The orders the elements of S can be put in.
Orderings(S) ==
    {s \in [1..Cardinality(S) -> S] :
        \A i, j \in 1..Cardinality(S) : s[i] = s[j] => i = j}

\* The orders of the rows of frame whose month has a code in codes that are
\* ascending in that code: the rows of the lowest code in any order, then
\* the rest.
RECURSIVE SortedOrders(_, _)
SortedOrders(frame, codes) ==
    IF codes = {} THEN {<<>>}
    ELSE LET c == CHOOSE x \in codes : \A y \in codes : x <= y
         IN  {a \o b :
                a \in Orderings({i \in 1..Len(frame.rows) :
                                    MonthCode[frame.rows[i][1].v] = c}),
                b \in SortedOrders(frame, codes \ {c})}

\* frame.sort_values('arrival_month') once the column is a Categorical over
\* month: the rows in ascending order of their month's code.  The default
\* sort (quicksort) is not stable, so the order of the rows of one month is
\* any.
sort_values(frame) ==
    { [columns |-> frame.columns,
       index   |-> [k \in 1..Len(p) |-> frame.index[p[k]]],
       rows    |-> [k \in 1..Len(p) |-> frame.rows[p[k]]]] :
      p \in SortedOrders(frame, {MonthCode[frame.rows[i][1].v] :
                                    i \in 1..Len(frame.rows)}) }

\* The values adr_month_hotel may have after lines 39-41.
adr_month_hotel_of(d) == sort_values(groupby_mean_adr(d))

\* final_rush['City Hotel'] and final_rush['Resort Hotel'], which the layout
\* reads for its first chart: a KeyError when the column is not there.
LayoutBuilds(fr) == CityHotel \in Range(fr.columns) /\ ResortHotel \in Range(fr.columns)

(***************************************************************************)
(* CSV text: DataFrame.to_csv and pandas.read_csv, both with their         *)
(* defaults.  Quoting is not modelled: no modelled label, cell or payload  *)
(* holds a quote character, and no modelled label or cell holds a comma or *)
(* a line break.  Numbers in CSV text are unsigned decimal integers.       *)
(***************************************************************************)
\* sep.join(parts)
RECURSIVE Join(_, _)
Join(parts, sep) ==
    IF parts = <<>> THEN <<>>
    ELSE IF Len(parts) = 1 THEN parts[1]
    ELSE parts[1] \o sep \o Join(Tail(parts), sep)

\* s.split(sep) for a one-character sep: the pieces between the separators.
RECURSIVE Split(_, _)
Split(s, sep) ==
    LET i == IndexOf(s, sep)
    IN  IF i = 0 THEN <<s>>
        ELSE <<SubSeq(s, 1, i - 1)>> \o Split(SubSeq(s, i + 1, Len(s)), sep)

\* The concatenation of a sequence of sequences.
RECURSIVE Concat(_)
Concat(ss) == IF ss = <<>> THEN <<>> ELSE ss[1] \o Concat(Tail(ss))

\* A cell as to_csv writes it: a NaN as nothing, a date whose time is
\* midnight as YYYY-MM-DD, a float with a whole value as n.0.
FormatCell(c) ==
    CASE c.t = "str"   -> c.v
      [] c.t = "int"   -> Digits(c.v, 1)
      [] c.t = "float" -> Digits(c.v, 1) \o <<46, 48>>
      [] c.t = "date"  -> Digits(c.v.year, 4) \o <<45>> \o Digits(c.v.month, 2)
                              \o <<45>> \o Digits(c.v.day, 2)
      [] c.t = "nan"   -> <<>>

\* frame.to_csv(): index=True and header=True are the defaults, so the text
\* opens with a header line whose first field, the index's name, is empty,
\* and every row opens with its index label.  Lines end in "\n".
to_csv(frame) ==
    LET line(fields) == Join(fields, <<44>>) \o <<10>>
    IN  line(<<(<<>>)>> \o frame.columns)
        \o Concat([i \in 1..Len(frame.rows) |->
                      line(<<Digits(frame.index[i], 1)>>
                           \o [j \in 1..Len(frame.columns) |->
                                  FormatCell(frame.rows[i][j])])])

\* "\r\n" and "\r" read as "\n".
RECURSIVE NormalizeNewlines(_)
NormalizeNewlines(s) ==
    IF s = <<>> THEN <<>>
    ELSE IF s[1] = 13
         THEN <<10>> \o NormalizeNewlines(
                  IF Len(s) >= 2 /\ s[2] = 10 THEN SubSeq(s, 3, Len(s)) ELSE Tail(s))
         ELSE <<s[1]>> \o NormalizeNewlines(Tail(s))

NotBlank(line) == line # <<>>

\* The strings read_csv takes for a missing value.
NaValues ==
    { <<>>, <<35, 78, 47, 65>>, <<35, 78, 47, 65, 32, 78, 47, 65>>,
      <<35, 78, 65>>, <<45, 49, 46, 35, 73, 78, 68>>,
      <<45, 49, 46, 35, 81, 78, 65, 78>>, <<45, 78, 97, 78>>,
      <<45, 110, 97, 110>>, <<49, 46, 35, 73, 78, 68>>,
      <<49, 46, 35, 81, 78, 65, 78>>, <<60, 78, 65, 62>>, <<78, 47, 65>>,
      <<78, 65>>, <<78, 85, 76, 76>>, <<78, 97, 78>>, <<110, 47, 97>>,
      <<110, 97, 110>>, <<110, 117, 108, 108>> }

IsDigits(s) == s # <<>> /\ \A i \in 1..Len(s) : s[i] \in 48..57

\* int(s) for a string of digits.
RECURSIVE ParseInt(_)
ParseInt(s) ==
    IF s = <<>> THEN 0
    ELSE 10 * ParseInt(SubSeq(s, 1, Len(s) - 1)) + (s[Len(s)] - 48)

\* The cells of one column, typed as read_csv infers: int64 when every
\* field is a number, float64 when the rest are missing, object otherwise.
InferColumn(fields) ==
    LET present == {i \in 1..Len(fields) : fields[i] \notin NaValues}
        numeric == \A i \in present : IsDigits(fields[i])
    IN  [i \in 1..Len(fields) |->
            IF i \notin present THEN NaN
            ELSE IF ~numeric THEN StrCell(fields[i])
            ELSE IF present = 1..Len(fields) THEN IntCell(ParseInt(fields[i]))
            ELSE FloatCell(ParseInt(fields[i]))]

\* fields padded with empty fields to n of them.
PadTo(fields, n) ==
    [j \in 1..(IF Len(fields) > n THEN Len(fields) ELSE n) |->
        IF j <= Len(fields) THEN fields[j] ELSE <<>>]

\* The tokenizer's pass over the data lines: a line shorter than the line
\* before it is padded to that length; from the second data line on, a
\* line longer than the line before it is an error.  width is the length
\* of the line before (of the header, for the first data line).
RECURSIVE Tokenize(_, _, _)
Tokenize(lines, width, first) ==
    IF lines = <<>> THEN [ok |-> TRUE, rows |-> <<>>]
    ELSE LET fields == Split(lines[1], 44)
         IN  IF ~first /\ Len(fields) > width
             THEN [ok |-> FALSE, rows |-> <<>>]
             ELSE LET row  == PadTo(fields, width)
                      rest == Tokenize(Tail(lines), Len(row), FALSE)
                  IN  [ok |-> rest.ok, rows |-> <<row>> \o rest.rows]

\* The frame of a header and its tokenized data lines.  When the first data
\* line has more fields than the header, the leading fields of every line
\* are the index and not columns.
BuildFrame(names, tok) ==
    IF ~tok.ok THEN [ok |-> FALSE, exc |-> "ParserError"]
    ELSE
    LET n       == Len(tok.rows)
        leading == IF n = 0 THEN 0 ELSE Len(tok.rows[1]) - Len(names)
        cols    == [j \in 1..(Len(names) + leading) |->
                       InferColumn([i \in 1..n |-> tok.rows[i][j]])]
    IN  [ok    |-> TRUE,
         frame |->
            [columns |-> names,
             index   |-> [i \in 1..n |->
                            IF leading = 0 THEN i - 1
                            ELSE [j \in 1..leading |-> cols[j][i]]],
             rows    |-> [i \in 1..n |->
                            [j \in 1..Len(names) |-> cols[leading + j][i]]]]]

\* The names of the columns: the header's fields, an empty one read as
\* "Unnamed: <position>".
ColumnNames(header) ==
    [j \in 1..Len(header) |->
        IF header[j] = <<>>
        THEN <<85, 110, 110, 97, 109, 101, 100, 58, 32>> \o Digits(j - 1, 1)
        ELSE header[j]]

\* The frame of the lines left once the blank ones are skipped: the first
\* is the header.
ReadLines(lines) ==
    IF lines = <<>> THEN [ok |-> FALSE, exc |-> "EmptyDataError"]
    ELSE BuildFrame(ColumnNames(Split(lines[1], 44)),
                    Tokenize(Tail(lines), Len(Split(lines[1], 44)), TRUE))

\* pd.read_csv(io.StringIO(text)): the frame, or the exception raised.
\* The modelled headers name no column twice.
read_csv(text) ==
    ReadLines(SelectSeq(Split(NormalizeNewlines(text), 10), NotBlank))

(***************************************************************************)
(* Python values as the callbacks receive them.                            *)
(***************************************************************************)
PyNone == [t |-> "None"]
PyStr(s) == [t |-> "str", v |-> s]
PyNum(n) == [t |-> "num", v |-> n]
PyList(xs) == [t |-> "list", v |-> xs]

\* What iter(x) accepts.
Iterable(x) == x.t \in {"str", "list"}

\* The items iterating x yields: the characters of a str, each a str.
Items(x) == IF x.t = "str" THEN [i \in 1..Len(x.v) |-> PyStr(<<x.v[i]>>)] ELSE x.v

\* sub in s, for two strs.
Contains(sub, s) ==
    \E i \in 1..(Len(s) - Len(sub) + 1) : SubSeq(s, i, i + Len(sub) - 1) = sub

EndsWith(s, suffix) ==
    Len(s) >= Len(suffix) /\ SubSeq(s, Len(s) - Len(suffix) + 1, Len(s)) = suffix

(***************************************************************************)
(* base64.b64decode and bytes.decode('utf-8').                             *)
(***************************************************************************)
\* The value of a character of the base64 alphabet, -1 for any other.
B64Value(c) ==
    IF c \in 65..90 THEN c - 65
    ELSE IF c \in 97..122 THEN c - 71
    ELSE IF c \in 48..57 THEN c + 4
    ELSE IF c = 43 THEN 62
    ELSE IF c = 47 THEN 63
    ELSE -1

\* binascii.a2b_base64, not strict: characters outside the alphabet are
\* skipped, a pad that completes a quad ends the input, and data left in an
\* unfinished quad at the end is binascii.Error.  quad is the place in the
\* current quad, left the bits not yet written, pads the pads seen since
\* the last data character.
RECURSIVE A2bBase64(_, _, _, _, _)
A2bBase64(s, quad, left, pads, out) ==
    IF s = <<>>
    THEN IF quad # 0 THEN [ok |-> FALSE, exc |-> "binascii.Error"]
         ELSE [ok |-> TRUE, bytes |-> out]
    ELSE IF s[1] = 61
    THEN IF quad >= 2 /\ quad + pads + 1 >= 4
         THEN [ok |-> TRUE, bytes |-> out]
         ELSE A2bBase64(Tail(s), quad, left, pads + 1, out)
    ELSE IF B64Value(s[1]) < 0
    THEN A2bBase64(Tail(s), quad, left, pads, out)
    ELSE LET v == B64Value(s[1])
         IN  CASE quad = 0 -> A2bBase64(Tail(s), 1, v, 0, out)
               [] quad = 1 -> A2bBase64(Tail(s), 2, v % 16, 0,
                                        Append(out, left * 4 + (v \div 16)))
               [] quad = 2 -> A2bBase64(Tail(s), 3, v % 4, 0,
                                        Append(out, left * 16 + (v \div 4)))
               [] quad = 3 -> A2bBase64(Tail(s), 0, 0, 0,
                                        Append(out, left * 64 + v))

\* base64.b64decode(s) for a str s: a str must be ASCII.
b64decode(s) ==
    IF \E i \in 1..Len(s) : s[i] > 127 THEN [ok |-> FALSE, exc |-> "ValueError"]
    ELSE A2bBase64(s, 0, 0, 0, <<>>)

IsCont(b) == b \in 128..191

\* bytes.decode('utf-8'): the code points, or UnicodeDecodeError for a byte
\* sequence that is not well-formed UTF-8.
RECURSIVE Utf8Decode(_, _)
Utf8Decode(b, out) ==
    LET n == Len(b)
        bad == [ok |-> FALSE, exc |-> "UnicodeDecodeError"]
    IN  IF n = 0 THEN [ok |-> TRUE, text |-> out]
        ELSE IF b[1] < 128
        THEN Utf8Decode(Tail(b), Append(out, b[1]))
        ELSE IF b[1] \in 194..223
        THEN IF n >= 2 /\ IsCont(b[2])
             THEN Utf8Decode(SubSeq(b, 3, n),
                             Append(out, (b[1] - 192) * 64 + (b[2] - 128)))
             ELSE bad
        ELSE IF b[1] \in 224..239
        THEN IF /\ n >= 3 /\ IsCont(b[2]) /\ IsCont(b[3])
                /\ (b[1] = 224 => b[2] >= 160)
                /\ (b[1] = 237 => b[2] <= 159)
             THEN Utf8Decode(SubSeq(b, 4, n),
                             Append(out, (b[1] - 224) * 4096 + (b[2] - 128) * 64
                                            + (b[3] - 128)))
             ELSE bad
        ELSE IF b[1] \in 240..244
        THEN IF /\ n >= 4 /\ IsCont(b[2]) /\ IsCont(b[3]) /\ IsCont(b[4])
                /\ (b[1] = 240 => b[2] >= 144)
                /\ (b[1] = 244 => b[2] <= 143)
             THEN Utf8Decode(SubSeq(b, 5, n),
                             Append(out, (b[1] - 240) * 262144 + (b[2] - 128) * 4096
                                            + (b[3] - 128) * 64 + (b[4] - 128)))
             ELSE bad
        ELSE bad

\* pd.read_excel(io.BytesIO(b)): bytes that open with neither the OLE2
\* signature of .xls nor the zip signature of .xlsx are no workbook, and
\* the reader raises.  The sheets of a workbook are not modelled: its frame
\* holds the bytes, and no modelled payload is a workbook.
read_excel(b) ==
    IF \/ (Len(b) >= 8 /\ SubSeq(b, 1, 8) = <<208, 207, 17, 224, 161, 177, 26, 225>>)
       \/ (Len(b) >= 4 /\ SubSeq(b, 1, 4) = <<80, 75, 3, 4>>)
    THEN [ok |-> TRUE,
          frame |-> [columns |-> <<>>, index |-> <<>>, rows |-> <<>>, workbook |-> b]]
    ELSE [ok |-> FALSE, exc |-> "ValueError"]

(***************************************************************************)
(* parse_contents.                                                         *)
(***************************************************************************)
\* "csv" and "xls", the strings looked for in the filename.
csv_mark == <<99, 115, 118>>
xls_mark == <<120, 108, 115>>

\* The branch of the if/elif the filename selects.  `in` on something that
\* is not a str (None, a number) is a TypeError, raised inside the try.
Dispatch(filename) ==
    IF filename.t # "str" THEN "TypeError"
    ELSE IF Contains(csv_mark, filename.v) THEN "csv"
    ELSE IF Contains(xls_mark, filename.v) THEN "xls"
    ELSE "none"

Raised(e) == [tag |-> "Raised", exc |-> e]

\* html.Div(['There was an error processing this file.'])
ErrorPanel(branch) ==
    [tag |-> "Failure", branch |-> branch,
     text |-> <<84, 104, 101, 114, 101, 32, 119, 97, 115, 32, 97, 110, 32, 101,
                114, 114, 111, 114, 32, 112, 114, 111, 99, 101, 115, 115, 105,
                110, 103, 32, 116, 104, 105, 115, 32, 102, 105, 108, 101, 46>>]

\* The try block: the frame the reader selected by the filename yields, or
\* the exception it raises; with neither branch taken, nothing is bound.
TryRead(branch, bytes) ==
    CASE branch = "csv" -> (IF Utf8Decode(bytes, <<>>).ok
                            THEN read_csv(Utf8Decode(bytes, <<>>).text)
                            ELSE [ok |-> FALSE, exc |-> "UnicodeDecodeError"])
      [] branch = "xls" -> read_excel(bytes)
      [] branch = "TypeError" -> [ok |-> FALSE, exc |-> "TypeError"]
      [] branch = "none" -> [ok |-> TRUE, unbound |-> TRUE]

\* The end of parse_contents: the error panel from the except clause, or
\* the preview.  The preview's arguments are evaluated in order: the
\* timestamp's conversion first, then df, which neither branch may have
\* bound.
Render(contents, filename, date, branch, parsed) ==
    IF ~parsed.ok THEN ErrorPanel(branch)
    ELSE IF date.t # "num" THEN Raised("TypeError")
    ELSE IF branch = "none" THEN Raised("UnboundLocalError")
    ELSE [tag     |-> "Success",
          branch  |-> branch,
          h5      |-> filename.v,
          h6      |-> [fromtimestamp |-> date.v],
          data    |-> parsed.frame.rows,
          columns |-> parsed.frame.columns,
          pre     |-> SubSeq(contents.v, 1, Min(200, Len(contents.v)))
                          \o <<46, 46, 46>>]

\* decoded = base64.b64decode(content_string), then the try block.
DecodeAndRead(contents, filename, date, decoded) ==
    IF ~decoded.ok THEN Raised(decoded.exc)
    ELSE Render(contents, filename, date, Dispatch(filename),
                TryRead(Dispatch(filename), decoded.bytes))

\* content_type, content_string = contents.split(',')
Unpack(contents, filename, date, pieces) ==
    IF Len(pieces) # 2 THEN Raised("ValueError")
    ELSE DecodeAndRead(contents, filename, date, b64decode(pieces[2]))

\* parse_contents(contents, filename, date): what the call returns, or the
\* exception that leaves it.  branch records which reader the filename
\* selected.
parse_contents(contents, filename, date) ==
    IF contents.t # "str" THEN Raised("AttributeError")
    ELSE Unpack(contents, filename, date, Split(contents.v, 44))

\* zip(a, b, c): the triples, or TypeError when one of them cannot be
\* iterated.
zip3(a, b, c) ==
    IF Iterable(a) /\ Iterable(b) /\ Iterable(c)
    THEN [ok |-> TRUE,
          items |-> [i \in 1..Min(Len(Items(a)), Min(Len(Items(b)), Len(Items(c)))) |->
                        <<Items(a)[i], Items(b)[i], Items(c)[i]>>]]
    ELSE [ok |-> FALSE, exc |-> "TypeError"]

\* The list the comprehension builds, unless one of its calls raised: then
\* the first exception leaves the callback.
Collect(out) ==
    IF \E i \in 1..Len(out) : out[i].tag = "Raised"
    THEN out[CHOOSE i \in 1..Len(out) :
                out[i].tag = "Raised" /\ \A j \in 1..(i - 1) : out[j].tag # "Raised"]
    ELSE [tag |-> "Returned", value |-> PyList(out)]

\* [parse_contents(c, n, d) for c, n, d in zip(...)]
Comprehension(z) ==
    IF ~z.ok THEN Raised(z.exc)
    ELSE Collect([i \in 1..Len(z.items) |->
                     parse_contents(z.items[i][1], z.items[i][2], z.items[i][3])])

\* update_output(list_of_contents, list_of_names, list_of_dates): the value
\* returned (None when nothing was uploaded), or the exception that leaves
\* the callback.
update_output(list_of_contents, list_of_names, list_of_dates) ==
    IF list_of_contents.t = "None" THEN [tag |-> "Returned", value |-> PyNone]
    ELSE Comprehension(zip3(list_of_contents, list_of_names, list_of_dates))

no_cancel_bookings_csv ==
    <<110, 111, 95, 99, 97, 110, 99, 101, 108, 95, 98, 111, 111, 107, 105, 110,
      103, 115, 46, 99, 115, 118>>

\* download_csv(n_clicks): dcc.send_data_frame(df.to_csv, name) of the
\* module's df, the file the browser is handed.
download_csv(clicks) ==
    [filename |-> no_cancel_bookings_csv, content |-> to_csv(df)]

(***************************************************************************)
(* The inputs of the upload zone.                                          *)
(***************************************************************************)
\* "data:text/csv;base64", the part of a data URL before its comma.
content_type == <<100, 97, 116, 97, 58, 116, 101, 120, 116, 47, 99, 115, 118,
                  59, 98, 97, 115, 101, 54, 52>>

\* The data URL of "a,b\n1,2\n3,4\n".
ContentsAB ==
    content_type \o <<44>>
        \o <<89, 83, 120, 105, 67, 106, 69, 115, 77, 103, 111, 122, 76, 68, 81, 75>>
\* The data URL of "a,b\n1,2\n3,4,5\n": the last line has a field too many.
ContentsRagged ==
    content_type \o <<44>>
        \o <<89, 83, 120, 105, 67, 106, 69, 115, 77, 103, 111, 122, 76, 68, 81,
             115, 78, 81, 111, 61>>
\* A payload without a comma.
ContentsNoComma == content_type
\* A payload with two commas.
ContentsTwoCommas == content_type \o <<44, 89, 81, 111, 61, 44, 89, 81, 111, 61>>
\* A body that is not base64: five characters of the alphabet.
ContentsBadBase64 == content_type \o <<44, 89, 83, 120, 105, 67>>
\* The data URL of the bytes FF FE 61, which are not UTF-8.
ContentsNotUtf8 == content_type \o <<44, 47, 47, 53, 104>>
\* The data URL of an empty file.
ContentsEmpty == content_type \o <<44>>

ValidContents == {ContentsAB}
BadContents ==
    {ContentsRagged, ContentsNoComma, ContentsTwoCommas, ContentsBadBase64,
     ContentsNotUtf8, ContentsEmpty}

\* "report.csv", "csv_report.xls", "book.xlsx", "data.xls", "notes.txt"
ReportCsv == <<114, 101, 112, 111, 114, 116, 46, 99, 115, 118>>
CsvReportXls == <<99, 115, 118, 95, 114, 101, 112, 111, 114, 116, 46, 120, 108, 115>>
BookXlsx == <<98, 111, 111, 107, 46, 120, 108, 115, 120>>
DataXls == <<100, 97, 116, 97, 46, 120, 108, 115>>
NotesTxt == <<110, 111, 116, 101, 115, 46, 116, 120, 116>>
Filenames == {ReportCsv, CsvReportXls, BookXlsx, DataXls, NotesTxt}

\* File.lastModified / 1000 of the dropped file.
LastModified == {0, 1600000000}

\* The files parse_contents is called with.
Files ==
    [contents : ValidContents \cup BadContents, filename : Filenames,
     last_modified : LastModified]

\* The files a user drops on the page of the running application.
DroppedFiles ==
    { [contents |-> ContentsAB, filename |-> ReportCsv, last_modified |-> 1600000000],
      [contents |-> ContentsRagged, filename |-> NotesTxt, last_modified |-> 0] }

\* dcc.Upload(..., multiple=False)
multiple == FALSE

\* The contents, filename and last_modified properties the upload zone
\* sets for a dropped file: lists of one when it takes several files, the
\* values themselves when it takes one.
UploadProps(f) ==
    IF multiple
    THEN [contents      |-> PyList(<<PyStr(f.contents)>>),
          filename      |-> PyList(<<PyStr(f.filename)>>),
          last_modified |-> PyList(<<PyNum(f.last_modified)>>)]
    ELSE [contents      |-> PyStr(f.contents),
          filename      |-> PyStr(f.filename),
          last_modified |-> PyNum(f.last_modified)]

\* The callback registered without prevent_initial_call.
prevent_initial_call_missing == FALSE

\* @app.callback(..., prevent_initial_call=True) on download_csv
prevent_initial_call == TRUE

(***************************************************************************)
(* The application.                                                        *)
(***************************************************************************)
NoFrame == [columns |-> <<>>, index |-> <<>>, rows |-> <<>>]
NoRequest == [kind |-> "none"]
NoOutcome == [tag |-> "none"]
NoCall == [contents |-> PyNone, filename |-> PyNone, date |-> PyNone]

Init ==
    /\ pc = "start"
    /\ data \in Datasets
    /\ df = NoFrame
    /\ final_rush = NoFrame
    /\ adr_month_hotel = NoFrame
    /\ loaded = FALSE
    /\ n_clicks = 0
    /\ request = NoRequest
    /\ outcome = NoOutcome
    /\ children = PyNone
    /\ downloads = <<>>
    /\ call = NoCall
    /\ result = NoOutcome

\* The module's top level: the derived tables, then the layout.  The layout
\* reads both hotel columns of final_rush; without them the import fails
\* and nothing is served.
Startup ==
    /\ pc = "start"
    /\ df' = df_of(data)
    /\ final_rush' = final_rush_of(data)
    /\ adr_month_hotel' \in adr_month_hotel_of(data)
    /\ pc' = IF LayoutBuilds(final_rush_of(data)) THEN "Idle" ELSE "crashed"
    /\ UNCHANGED <<data, loaded, n_clicks, request, outcome, children,
                   downloads, call, result>>

\* What a callback's run leaves: the value it returned is Success when it
\* renders previews only, Failure when it renders an error panel; an
\* exception that left the callback is neither.
Outcome(r) ==
    IF r.tag = "Raised" THEN r
    ELSE IF r.value.t = "list"
            /\ \E i \in 1..Len(r.value.v) : r.value.v[i].tag = "Failure"
    THEN [tag |-> "Failure", value |-> r.value]
    ELSE [tag |-> "Success", value |-> r.value]

\* The browser loads the page: Dash runs every callback that does not
\* prevent its initial call, with the properties the layout gives, which
\* for the upload zone are all None.
PageLoad ==
    /\ pc = "Idle"
    /\ ~loaded
    /\ loaded' = TRUE
    /\ children' = update_output(PyNone, PyNone, PyNone).value
    /\ downloads' = IF prevent_initial_call THEN downloads
                    ELSE Append(downloads, download_csv(PyNone))
    /\ UNCHANGED <<pc, data, df, final_rush, adr_month_hotel, n_clicks,
                   request, outcome, call, result>>

\* The user activates the download button.
ClickButton ==
    /\ pc = "Idle"
    /\ loaded
    /\ n_clicks < MaxClicks
    /\ n_clicks' = n_clicks + 1
    /\ request' = [kind |-> "download", n_clicks |-> n_clicks + 1]
    /\ pc' = "Triggered"
    /\ UNCHANGED <<data, df, final_rush, adr_month_hotel, loaded, outcome,
                   children, downloads, call, result>>

\* The user drops a file on the upload zone.
DropFile ==
    /\ pc = "Idle"
    /\ loaded
    /\ \E f \in DroppedFiles :
          request' = [kind |-> "upload"] @@ UploadProps(f)
    /\ pc' = "Triggered"
    /\ UNCHANGED <<data, df, final_rush, adr_month_hotel, loaded, n_clicks,
                   outcome, children, downloads, call, result>>

\* download_csv runs for the activation.
RunDownload ==
    /\ pc = "Triggered"
    /\ request.kind = "download"
    /\ outcome' = [tag |-> "Success", value |-> download_csv(PyNum(request.n_clicks))]
    /\ downloads' = Append(downloads, download_csv(PyNum(request.n_clicks)))
    /\ pc' = "Success"
    /\ UNCHANGED <<data, df, final_rush, adr_month_hotel, loaded, n_clicks,
                   request, children, call, result>>

\* update_output runs for the dropped file.  Dash sets the output to the
\* value returned; when the callback raises, Dash answers the request with
\* an error and the output keeps what it showed.
RunUpload ==
    /\ pc = "Triggered"
    /\ request.kind = "upload"
    /\ \E r \in {update_output(request.contents, request.filename,
                                request.last_modified)} :
          /\ outcome' = Outcome(r)
          /\ children' = IF r.tag = "Raised" THEN children ELSE r.value
          /\ pc' = Outcome(r).tag
    /\ UNCHANGED <<data, df, final_rush, adr_month_hotel, loaded, n_clicks,
                   request, downloads, call, result>>

\* The response is sent; the page waits for the next trigger.
Respond ==
    /\ pc \in {"Success", "Failure", "Raised"}
    /\ pc' = "Idle"
    /\ request' = NoRequest
    /\ outcome' = NoOutcome
    /\ UNCHANGED <<data, df, final_rush, adr_month_hotel, loaded, n_clicks,
                   children, downloads, call, result>>

Next ==
    \/ Startup
    \/ PageLoad
    \/ ClickButton
    \/ DropFile
    \/ RunDownload
    \/ RunUpload
    \/ Respond

Spec == Init /\ [][Next]_vars

(***************************************************************************)
(* parse_contents on its own: every modelled file, one call each.          *)
(***************************************************************************)
InitParse ==
    /\ pc = "call"
    /\ data = <<>>
    /\ df = NoFrame
    /\ final_rush = NoFrame
    /\ adr_month_hotel = NoFrame
    /\ loaded = FALSE
    /\ n_clicks = 0
    /\ request = NoRequest
    /\ outcome = NoOutcome
    /\ children = PyNone
    /\ downloads = <<>>
    /\ \E f \in Files :
          call = [contents |-> PyStr(f.contents), filename |-> PyStr(f.filename),
                  date |-> PyNum(f.last_modified)]
    /\ result = NoOutcome

CallParseContents ==
    /\ pc = "call"
    /\ result' = parse_contents(call.contents, call.filename, call.date)
    /\ pc' = "returned"
    /\ UNCHANGED <<data, df, final_rush, adr_month_hotel, loaded, n_clicks,
                   request, outcome, children, downloads, call>>

NextParse == CallParseContents

SpecParse == InitParse /\ [][NextParse]_vars

(***************************************************************************)
(* The properties.                                                         *)
(***************************************************************************)
Started == pc \notin {"start", "call", "returned"}

\* The rows of data that are bookings of hotel h arriving in the month
\* numbered m, canceled or not.
Bookings(m, h) ==
    {k \in 1..Len(data) : data[k].arrival_date.month = m /\ data[k].hotel = h}

ActiveBookings(m, h) == {k \in Bookings(m, h) : data[k].is_canceled = 0}

\* An upload has run and not yet been answered.
UploadRan == pc \in {"Success", "Failure", "Raised"} /\ request.kind = "upload"

\* The single file the running upload was given.
Dropped(contents, filename) ==
    /\ request.contents = PyStr(contents)
    /\ request.filename = PyStr(filename)

\* C1: a single dropped file that is the valid CSV with columns a, b and
\* rows (1, 2), (3, 4) ends the upload handler in Success, with a preview
\* of exactly those columns and rows.
C1_ValidCsvPreviewed ==
    (UploadRan /\ Dropped(ContentsAB, ReportCsv))
        => /\ pc = "Success"
           /\ outcome.value.t = "list"
           /\ Len(outcome.value.v) = 1
           /\ outcome.value.v[1].columns = << <<97>>, <<98>> >>
           /\ outcome.value.v[1].data =
                  << <<IntCell(1), IntCell(2)>>, <<IntCell(3), IntCell(4)>> >>

\* C2: a call of parse_contents for a file named report.csv whose payload
\* is not valid CSV content returns the error panel; no exception leaves
\* the call.
C2_BadPayloadReported ==
    (pc = "returned" /\ call.contents.v \in BadContents
        /\ call.filename.v = ReportCsv)
        => result.tag = "Failure"

\* C3: a call of parse_contents for a well-formed payload whose filename
\* matches neither the CSV nor the spreadsheet case returns the error
\* panel: it neither succeeds nor raises.
C3_UnsupportedTypeReported ==
    (pc = "returned" /\ call.contents.v \in ValidContents
        /\ call.filename.v = NotesTxt)
        => result.tag = "Failure"

\* C4: whenever parse_contents reaches its dispatch, it takes the CSV reader
\* if and only if the filename ends in ".csv", and the spreadsheet reader if
\* and only if it ends in ".xls" or ".xlsx".
C4_DispatchBySuffix ==
    (pc = "returned" /\ result.tag \in {"Success", "Failure"})
        => /\ result.branch = "csv"
                <=> EndsWith(call.filename.v, <<46, 99, 115, 118>>)
           /\ result.branch = "xls"
                <=> \/ EndsWith(call.filename.v, <<46, 120, 108, 115>>)
                    \/ EndsWith(call.filename.v, <<46, 120, 108, 115, 120>>)

\* C5: the downloads handed to the browser are exactly one per button
\* activation that has run, none at page load or without an activation,
\* and each is the file no_cancel_bookings.csv holding the CSV text of df.
C5_DownloadOnlyOnClick ==
    Started =>
        /\ Len(downloads) =
              n_clicks - (IF pc = "Triggered" /\ request.kind = "download"
                          THEN 1 ELSE 0)
        /\ \A i \in 1..Len(downloads) :
              /\ downloads[i].filename =
                    <<110, 111, 95, 99, 97, 110, 99, 101, 108, 95, 98, 111, 111,
                      107, 105, 110, 103, 115, 46, 99, 115, 118>>
              /\ downloads[i].content = to_csv(df_of(data))
              /\ downloads[i] = downloads[1]

\* C5's case: the page was loaded and the button activated twice, both
\* activations answered.
C5_Witness == loaded /\ pc = "Idle" /\ n_clicks = 2 /\ Len(downloads) = 2

\* C6: every downloaded file, parsed back as CSV, is the table df: the same
\* columns, hotel and arrival_date, and the same rows in the same order.
C6_ExportRoundTrip ==
    \A i \in 1..Len(downloads) :
        /\ read_csv(downloads[i].content).ok
        /\ read_csv(downloads[i].content).frame.columns = df.columns
        /\ read_csv(downloads[i].content).frame.rows = df.rows

\* C7: the row labels of final_rush are the twelve month names in calendar
\* order; a row of a month without active bookings is there, its cells
\* absent; and each cell holds the number of active bookings of its month
\* and hotel, every hotel with an active booking having a column.
C7_BusyMonthRows ==
    Started =>
        /\ final_rush.index =
              <<"January", "February", "March", "April", "May", "June", "July",
                "August", "September", "October", "November", "December">>
        /\ Len(final_rush.rows) = 12
        /\ \A k \in 1..Len(data) :
              data[k].is_canceled = 0 => data[k].hotel \in Range(final_rush.columns)
        /\ \A m \in 1..12 : \A j \in 1..Len(final_rush.columns) :
              LET cell  == final_rush.rows[m][j]
                  count == Cardinality(ActiveBookings(m, final_rush.columns[j]))
              IN  IF cell.t = "nan" THEN count = 0 ELSE cell.v = count

\* C7's case: a month without active bookings has its row, and a cell
\* counts one booking where data holds a second, canceled one of the same
\* month and hotel.
C7_Witness ==
    /\ Started
    /\ \E m \in 1..12 : \A h \in HotelValues : ActiveBookings(m, h) = {}
    /\ \E m \in 1..12 : \E j \in 1..Len(final_rush.columns) :
          /\ final_rush.rows[m][j].t # "nan"
          /\ final_rush.rows[m][j].v = 1
          /\ Cardinality(Bookings(m, final_rush.columns[j])) = 2

\* C8: adr_month_hotel has a row for a month and a hotel only if data holds
\* a booking of that month and that hotel, and its rows are in calendar
\* order of their month.
C8_AdrRowsObserved ==
    Started =>
        /\ \A i \in 1..Len(adr_month_hotel.rows) :
              Bookings(MonthCode[adr_month_hotel.rows[i][1].v],
                       adr_month_hotel.rows[i][2].v) # {}
        /\ \A i, j \in 1..Len(adr_month_hotel.rows) :
              i < j => MonthCode[adr_month_hotel.rows[i][1].v]
                          <= MonthCode[adr_month_hotel.rows[j][1].v]

\* C9: df holds exactly the rows of data that are not canceled, each once,
\* in the order of data, reduced to the columns hotel and arrival_date.
C9_FilterActive ==
    Started =>
        /\ df.columns = <<hotel_col, arrival_date_col>>
        /\ Len(df.rows) = Cardinality({k \in 1..Len(data) : data[k].is_canceled = 0})
        /\ \A i \in 1..Len(df.rows) :
              /\ df.index[i] + 1 \in 1..Len(data)
              /\ data[df.index[i] + 1].is_canceled = 0
              /\ df.rows[i] = <<StrCell(data[df.index[i] + 1].hotel),
                                DateCell(data[df.index[i] + 1].arrival_date)>>
        /\ \A i, j \in 1..Len(df.rows) : i < j => df.index[i] < df.index[j]

\* C9's case: data holds a canceled booking ahead of an active one, and a
\* second active one after it.
C9_Witness ==
    /\ Started
    /\ Len(data) >= 2
    /\ data[1].is_canceled = 1
    /\ data[2].is_canceled = 0
    /\ Len(df.rows) >= 1

\* C10: every invocation that was triggered ends in Success or Failure and
\* from there returns to Idle, and once the application serves, no step
\* changes df, final_rush or adr_month_hotel.
C10_HandlerStateMachine ==
    [][/\ pc = "Triggered" => pc' \in {"Success", "Failure"}
       /\ pc \in {"Success", "Failure"} => pc' = "Idle"
       /\ pc \in {"Idle", "Triggered", "Success", "Failure"} =>
             /\ df' = df
             /\ final_rush' = final_rush
             /\ adr_month_hotel' = adr_month_hotel]_vars

(***************************************************************************)
(* What does hold next to the refuted properties.                          *)
(***************************************************************************)
\* Beside C1: parse_contents itself, given the valid CSV under the name
\* report.csv, returns the preview of columns a, b and rows (1, 2), (3, 4).
ParseContentsPreviewsValidCsv ==
    (pc = "returned" /\ call.contents.v = ContentsAB /\ call.filename.v = ReportCsv)
        => /\ result.tag = "Success"
           /\ result.columns = << <<97>>, <<98>> >>
           /\ result.data = << <<IntCell(1), IntCell(2)>>, <<IntCell(3), IntCell(4)>> >>

\* Beside C2: the failures raised inside the try block (bytes that are not
\* UTF-8, a ragged table, an empty file) do return the error panel.
CaughtFailuresReported ==
    (pc = "returned" /\ call.filename.v = ReportCsv
        /\ call.contents.v \in {ContentsNotUtf8, ContentsRagged, ContentsEmpty})
        => result.tag = "Failure"

\* Beside C8: a row of adr_month_hotel without bookings has the mean NaN,
\* and its month and its hotel each occur in data.
UnobservedPairsAreNaN ==
    Started =>
        \A i \in 1..Len(adr_month_hotel.rows) :
            LET m == MonthCode[adr_month_hotel.rows[i][1].v]
                h == adr_month_hotel.rows[i][2].v
            IN  /\ (Bookings(m, h) = {}) <=> (adr_month_hotel.rows[i][3].t = "nan")
                /\ \E k \in 1..Len(data) : data[k].arrival_date.month = m
                /\ \E k \in 1..Len(data) : data[k].hotel = h

\* Beside C10: once the application serves, no step changes df, final_rush
\* or adr_month_hotel, and every invocation that ran returns to Idle.
ArtifactsReadOnly ==
    [][/\ pc \in {"Idle", "Triggered", "Success", "Failure", "Raised"} =>
             /\ df' = df
             /\ final_rush' = final_rush
             /\ adr_month_hotel' = adr_month_hotel
       /\ pc \in {"Success", "Failure", "Raised"} => pc' = "Idle"]_vars

====
